---- MODULE Spec2Model ----
(***************************************************************************)
(* engine_finetune.py: one call of train_one_epoch or of evaluate.         *)
(*                                                                         *)
(* The state is the arguments of the call, the position of the call in the *)
(* function body, the local variables the body keeps, and the effects the  *)
(* body has on its collaborators (optimizer, loss scaler, learning-rate    *)
(* schedule, metric logger, log writer, plotting library), recorded in the *)
(* order in which the body makes them.                                     *)
(***************************************************************************)
EXTENDS Integers, Sequences, FiniteSets, TLC

VARIABLES
    call,                 \* which function this behaviour is a call of
    calls,                \* the calls made on the collaborators, in order
    \* ---- train_one_epoch ----
    accum_iter,           \* args.accum_iter
    num_batches,          \* len(data_loader)
    epoch,                \* epoch
    log_writer,           \* TRUE iff log_writer is not None
    tpc,                  \* position in train_one_epoch
    data_iter_step,       \* the loop index
    loss_value,           \* loss.item() of the current batch
    grads,                \* the optimizer's gradient buffers: what was accumulated
    applied,              \* what each optimizer step applied
    exit_code,            \* the process's exit code, NoExit while it runs
    \* ---- evaluate ----
    data,                 \* args.data
    confusion_matrix_plot,
    RISE_collapse_labels,
    plot_save_name,
    epc,                  \* position in evaluate
    preds,                \* list of per-batch prediction lists
    targets,              \* list of per-batch target lists
    seen,                 \* the samples evaluated so far, in order, as <<pred, target>>
    final_acc1,           \* <<agreements, samples>> of the 7-class plot, Unset before
    final_bin_acc1,       \* <<agreements, samples>> of the binary plot, Unset before
    files,                \* the files written by plt.savefig, in order
    error                 \* the exception that ended evaluate, "none" otherwise

trainVars == <<accum_iter, num_batches, epoch, log_writer, tpc, data_iter_step,
               loss_value, grads, applied, exit_code>>
evalVars == <<data, confusion_matrix_plot, RISE_collapse_labels, plot_save_name, epc,
              preds, targets, seen, final_acc1, final_bin_acc1, files, error>>
vars == <<call, calls, trainVars, evalVars>>

(***************************************************************************)
(* Bounds of the model.                                                    *)
(***************************************************************************)
MaxAccum == 3        \* accum_iter ranges over 1..MaxAccum
MaxBatches == 5      \* len(data_loader) of the training loader ranges over 1..MaxBatches
MaxEpoch == 1        \* epoch ranges over 0..MaxEpoch
MaxSamples == 2      \* the evaluation loader holds 1..MaxSamples samples in all

NoExit == -1         \* exit_code while the process runs
StaleGrad == <<-1, 1>>   \* a gradient left in the buffers by an earlier call
Unset == <<-1, -1>>

LossValues == {"finite", "nan", "inf", "-inf"}
SaveNames == {"runA", "runB"}
DataNames == {"UCIHAR", "RISE", "OTHER"}

\* One call on a collaborator: which, on which batch (-1 before the loop, the number
\* of batches after it), in which part of the function, and its arguments.
Call(op, step, phase, flag, x) ==
    [op |-> op, step |-> step, phase |-> phase, flag |-> flag, x |-> x]

Ev(op, step, phase) == Call(op, step, phase, FALSE, 0)

(***************************************************************************)
(* train_one_epoch                                                         *)
(***************************************************************************)

\* an adjustment on every batch, the accumulation test dropped
AdjustDueEveryBatch(i, A) == TRUE

\* line 48: the learning rate is adjusted on this batch
AdjustDue(i, A) == i % A = 0

\* update_grad on the first batch of a group instead of its last
UpdateGradAtGroupStart(i, A) == i % A = 0

\* line 73: update_grad, the argument that makes the loss scaler step the optimizer
UpdateGrad(i, A) == (i + 1) % A = 0

\* zeroing after every batch, as without accumulation
ZeroGradEveryBatch(i, A) == TRUE

\* line 74: the gradients are zeroed after this batch
ZeroGradDue(i, A) == (i + 1) % A = 0

\* logging on every batch, the accumulation test dropped
LogDueEveryBatch(w, i, A) == w

\* line 92: the scalars are logged on this batch
LogDue(w, i, A) == w /\ (i + 1) % A = 0

\* a test for NaN alone, math.isnan in the place of math.isfinite
IsFiniteNanOnly(l) == l # "nan"

\* line 66: math.isfinite(loss_value)
IsFinite(l) == l = "finite"

\* line 96: int((data_iter_step / len(data_loader) + epoch) * 1000), on the exact
\* quotient; the operands are never negative, so int() truncates downwards
Epoch1000x(i, N, e) == (1000 * (i + e * N)) \div N

\* lines 70-73: loss /= accum_iter, then loss_scaler(loss, optimizer, ...,
\* update_grad): backward adds the scaled loss's gradient to the buffers, and with
\* update_grad the optimizer steps on what the buffers hold
ScalerBackward(g, i, A) == Append(g, <<i, A>>)

TrainStart ==
    /\ call = "train_one_epoch" /\ tpc = "start"
    /\ grads' = << >>                                   \* line 40: optimizer.zero_grad()
    /\ calls' = Append(calls, Ev("zero_grad", -1, "pre"))
    /\ data_iter_step' = 0
    /\ tpc' = "head"
    /\ UNCHANGED <<call, accum_iter, num_batches, epoch, log_writer, loss_value,
                   applied, exit_code, evalVars>>

\* lines 45-49: the loader yields the next batch, or is exhausted
TrainHead ==
    /\ call = "train_one_epoch" /\ tpc = "head"
    /\ IF data_iter_step < num_batches
       THEN /\ tpc' = "forward"
            /\ calls' = IF AdjustDue(data_iter_step, accum_iter)
                        THEN Append(calls, Call("adjust_learning_rate", data_iter_step,
                                                "loop", FALSE, 0))
                        ELSE calls
       ELSE /\ tpc' = "sync"
            /\ calls' = calls
    /\ UNCHANGED <<call, accum_iter, num_batches, epoch, log_writer, data_iter_step,
                   loss_value, grads, applied, exit_code, evalVars>>

\* lines 51-62: the forward pass and the loss
TrainForward ==
    /\ call = "train_one_epoch" /\ tpc = "forward"
    /\ \E l \in LossValues : loss_value' = l
    /\ calls' = Append(calls, Ev("model", data_iter_step, "loop"))
    /\ tpc' = "check"
    /\ UNCHANGED <<call, accum_iter, num_batches, epoch, log_writer, data_iter_step,
                   grads, applied, exit_code, evalVars>>

\* lines 66-68
TrainCheck ==
    /\ call = "train_one_epoch" /\ tpc = "check"
    /\ IF ~IsFinite(loss_value)
       THEN tpc' = "exited" /\ exit_code' = 1           \* sys.exit(1)
       ELSE tpc' = "backward" /\ exit_code' = exit_code
    /\ UNCHANGED <<call, calls, accum_iter, num_batches, epoch, log_writer,
                   data_iter_step, loss_value, grads, applied, evalVars>>

\* lines 70-75
TrainBackward ==
    /\ call = "train_one_epoch" /\ tpc = "backward"
    /\ LET i == data_iter_step
           upd == UpdateGrad(i, accum_iter)
           zero == ZeroGradDue(i, accum_iter)
           g == ScalerBackward(grads, i, accum_iter)
           c1 == Append(calls, Call("loss_scaler", i, "loop", upd, 0))
           c2 == IF upd THEN Append(c1, Ev("optimizer_step", i, "loop")) ELSE c1
           c3 == IF zero THEN Append(c2, Ev("zero_grad", i, "loop")) ELSE c2
       IN /\ applied' = IF upd THEN Append(applied, g) ELSE applied
          /\ grads' = IF zero THEN << >> ELSE g
          /\ calls' = c3
    /\ tpc' = "metric"
    /\ UNCHANGED <<call, accum_iter, num_batches, epoch, log_writer, data_iter_step,
                   loss_value, exit_code, evalVars>>

\* the calls of lines 79-89 without the reduction of line 89
MetricCallsNoReduce(i) ==
    << Ev("metric_update_loss", i, "loop"), Ev("metric_update_lr", i, "loop") >>

\* lines 79-89: the metric logger, then the mean of the loss over the processes
MetricCalls(i) ==
    << Ev("metric_update_loss", i, "loop"), Ev("metric_update_lr", i, "loop"),
       Ev("all_reduce_mean", i, "loop") >>

\* lines 79-89
TrainMetric ==
    /\ call = "train_one_epoch" /\ tpc = "metric"
    /\ calls' = calls \o MetricCalls(data_iter_step)
    /\ tpc' = "log"
    /\ UNCHANGED <<call, accum_iter, num_batches, epoch, log_writer, data_iter_step,
                   loss_value, grads, applied, exit_code, evalVars>>

\* lines 92-98, and the loop's increment
TrainLog ==
    /\ call = "train_one_epoch" /\ tpc = "log"
    /\ LET i == data_iter_step
           x == Epoch1000x(i, num_batches, epoch)
       IN calls' = IF LogDue(log_writer, i, accum_iter)
                   THEN calls \o << Call("add_scalar_loss", i, "loop", FALSE, x),
                                    Call("add_scalar_lr", i, "loop", FALSE, x) >>
                   ELSE calls
    /\ data_iter_step' = data_iter_step + 1
    /\ tpc' = "head"
    /\ UNCHANGED <<call, accum_iter, num_batches, epoch, log_writer, loss_value,
                   grads, applied, exit_code, evalVars>>

\* lines 101-103
TrainSync ==
    /\ call = "train_one_epoch" /\ tpc = "sync"
    /\ calls' = Append(calls, Ev("synchronize_between_processes", data_iter_step, "post"))
    /\ tpc' = "returned"
    /\ UNCHANGED <<call, accum_iter, num_batches, epoch, log_writer, data_iter_step,
                   loss_value, grads, applied, exit_code, evalVars>>

(***************************************************************************)
(* evaluate                                                                *)
(***************************************************************************)

\* The labels the model and the loader produce here: three of the seven classes,
\* and one label that is none of them.
LabelValues == {0, 1, 2, 7}

\* line 182
mapping == (0 :> 0) @@ (1 :> 1) @@ (2 :> 1) @@ (3 :> 1) @@ (4 :> 0) @@ (5 :> 0) @@ (6 :> 0)

\* label names bound whatever the dataset
KnownDataAny == DataNames

\* lines 159-162: the datasets that bind the label names
KnownData == {"UCIHAR", "RISE"}

PlotDir == "/niddk-data-central/P2/mae_hr/MAE_Accelerometer/plots/"

\* line 179
PlotPath(name) == <<PlotDir, name, "_confusion_matrix.png">>

\* the binary plot saved under the name of the first
BinPlotPathSame(name) == PlotPath(name)

\* line 204
BinPlotPath(name) == <<PlotDir, name, "_bin_confusion_matrix.png">>

\* lines 157-158: list(itertools.chain.from_iterable(l))
RECURSIVE Chain(_)
Chain(l) == IF l = << >> THEN << >> ELSE Head(l) \o Chain(Tail(l))

\* lines 183-184: [mapping[x] for x in l], defined when every x is a key
HasKeys(l) == \A k \in 1..Len(l) : l[k] \in DOMAIN mapping

Collapse(l) == [k \in 1..Len(l) |-> mapping[l[k]]]

\* lines 167-168 and 190-191: (p == t).sum()
Accordance(p, t) == Cardinality({k \in 1..Len(p) : p[k] = t[k]})

\* the predictions of one batch put in front of the list
PrependPreds(l, b) == <<[k \in 1..Len(b) |-> b[k][1]]>> \o l

\* line 132: the predictions of one batch join the list
AppendPreds(l, b) == Append(l, [k \in 1..Len(b) |-> b[k][1]])

\* line 133: the targets of one batch join the list
AppendTargets(l, b) == Append(l, [k \in 1..Len(b) |-> b[k][2]])

\* lines 120-144: one batch of the loop; b is the batch as <<argmax, target>> pairs
EvalBatch ==
    /\ call = "evaluate" /\ epc = "loop"
    /\ \E n \in 1..(MaxSamples - Len(seen)) :
         \E b \in [1..n -> LabelValues \X LabelValues] :
            /\ preds' = AppendPreds(preds, b)
            /\ targets' = AppendTargets(targets, b)
            /\ seen' = seen \o b
    /\ calls' = calls \o << Ev("model", Len(preds), "loop"),
                            Ev("metric_update", Len(preds), "loop") >>
    /\ UNCHANGED <<call, trainVars, data, confusion_matrix_plot, RISE_collapse_labels,
                   plot_save_name, epc, final_acc1, final_bin_acc1, files, error>>

\* lines 148-153: the loader is exhausted
EvalSync ==
    /\ call = "evaluate" /\ epc = "loop"
    /\ Len(preds) >= 1
    /\ calls' = Append(calls, Ev("synchronize_between_processes", Len(preds), "post"))
    /\ epc' = "plot"
    /\ UNCHANGED <<call, trainVars, data, confusion_matrix_plot, RISE_collapse_labels,
                   plot_save_name, preds, targets, seen, final_acc1, final_bin_acc1,
                   files, error>>

\* lines 156-179
EvalPlot ==
    /\ call = "evaluate" /\ epc = "plot"
    /\ IF ~confusion_matrix_plot
       THEN /\ epc' = "return"
            /\ UNCHANGED <<calls, final_acc1, files, error>>
       ELSE LET preds_list == Chain(preds)
                targets_list == Chain(targets)
                acc == <<Accordance(preds_list, targets_list), Len(preds_list)>>
            IN IF data \notin KnownData
               THEN \* line 173: labels is unbound
                    /\ epc' = "failed"
                    /\ error' = "UnboundLocalError"
                    /\ final_acc1' = acc
                    /\ UNCHANGED <<calls, files>>
               ELSE /\ epc' = "collapse"
                    /\ final_acc1' = acc
                    /\ files' = Append(files, PlotPath(plot_save_name))
                    /\ calls' = Append(calls, Ev("savefig", Len(preds), "post"))
                    /\ error' = error
    /\ UNCHANGED <<call, trainVars, data, confusion_matrix_plot, RISE_collapse_labels,
                   plot_save_name, preds, targets, seen, final_bin_acc1>>

\* lines 181-204
EvalCollapse ==
    /\ call = "evaluate" /\ epc = "collapse"
    /\ IF ~RISE_collapse_labels
       THEN /\ epc' = "return"
            /\ UNCHANGED <<calls, final_bin_acc1, files, error>>
       ELSE LET preds_list == Chain(preds)
                targets_list == Chain(targets)
            IN IF ~(HasKeys(preds_list) /\ HasKeys(targets_list))
               THEN \* lines 183-184: mapping[x] of a missing key
                    /\ epc' = "failed"
                    /\ error' = "KeyError"
                    /\ UNCHANGED <<calls, final_bin_acc1, files>>
               ELSE /\ epc' = "return"
                    /\ final_bin_acc1' = <<Accordance(Collapse(preds_list),
                                                      Collapse(targets_list)),
                                           Len(preds_list)>>
                    /\ files' = Append(files, BinPlotPath(plot_save_name))
                    /\ calls' = Append(calls, Ev("savefig", Len(preds), "post"))
                    /\ error' = error
    /\ UNCHANGED <<call, trainVars, data, confusion_matrix_plot, RISE_collapse_labels,
                   plot_save_name, preds, targets, seen, final_acc1>>

\* line 208: the metrics are returned
EvalReturn ==
    /\ call = "evaluate" /\ epc = "return"
    /\ epc' = "returned"
    /\ UNCHANGED <<call, calls, trainVars, data, confusion_matrix_plot,
                   RISE_collapse_labels, plot_save_name, preds, targets, seen,
                   final_acc1, final_bin_acc1, files, error>>

(***************************************************************************)
(* The specification: one call, of either function, with any arguments.    *)
(***************************************************************************)
TrainIdle ==
    /\ accum_iter = 1 /\ num_batches = 1 /\ epoch = 0 /\ log_writer = FALSE
    /\ tpc = "idle" /\ grads = << >>

EvalIdle ==
    /\ data = "UCIHAR" /\ confusion_matrix_plot = FALSE /\ RISE_collapse_labels = FALSE
    /\ plot_save_name = "runA" /\ epc = "idle"

Init ==
    /\ call \in {"train_one_epoch", "evaluate"}
    /\ calls = << >>
    /\ data_iter_step = 0 /\ loss_value = "none" /\ applied = << >> /\ exit_code = NoExit
    /\ preds = << >> /\ targets = << >> /\ seen = << >>
    /\ final_acc1 = Unset /\ final_bin_acc1 = Unset /\ files = << >> /\ error = "none"
    /\ IF call = "train_one_epoch"
       THEN /\ accum_iter \in 1..MaxAccum
            /\ num_batches \in 1..MaxBatches
            /\ epoch \in 0..MaxEpoch
            /\ log_writer \in BOOLEAN
            /\ grads \in {<< >>, <<StaleGrad>>}
            /\ tpc = "start"
            /\ EvalIdle
       ELSE /\ data \in DataNames
            /\ confusion_matrix_plot \in BOOLEAN
            /\ RISE_collapse_labels \in BOOLEAN
            /\ plot_save_name \in SaveNames
            /\ epc = "loop"
            /\ TrainIdle

Next ==
    \/ TrainStart
    \/ TrainHead
    \/ TrainForward
    \/ TrainCheck
    \/ TrainBackward
    \/ TrainMetric
    \/ TrainLog
    \/ TrainSync
    \/ EvalBatch
    \/ EvalSync
    \/ EvalPlot
    \/ EvalCollapse
    \/ EvalReturn

Spec == Init /\ [][Next]_vars

(***************************************************************************)
(* Reading the record of calls.                                            *)
(***************************************************************************)
Idx(op) == {k \in DOMAIN calls : calls[k].op = op}

At(op, j) == {k \in Idx(op) : calls[k].step = j}

Train == call = "train_one_epoch"
Eval == call = "evaluate"

\* batch j of the training loop has been carried through to the end of the body
Completed(j) == j < data_iter_step

\* batch j of the training loop has been handed out by the loader
Started(j) == j < data_iter_step \/ (j = data_iter_step /\ tpc \in
                  {"forward", "check", "backward", "metric", "log", "exited"})

\* batch j of the training loop has gone through the loss scaler
Scaled(j) == j < data_iter_step \/ (j = data_iter_step /\ tpc \in {"metric", "log"})

(***************************************************************************)
(* C1: if the loss of batch k is not finite, the process exits with code 1 *)
(* right there: on batch k the loss scaler is not called, the gradients    *)
(* are not zeroed, the metric logger is not updated and no scalar is       *)
(* logged, no later batch is touched, nothing more happens, and every      *)
(* batch before k was carried through in full.                             *)
(***************************************************************************)
C1_NonFiniteLossExits ==
    Train =>
      /\ (loss_value \in {"nan", "inf", "-inf"} /\ tpc # "check") => tpc = "exited"
      /\ (exit_code # NoExit) <=> (tpc = "exited")
      /\ tpc = "exited" =>
           /\ exit_code = 1
           /\ loss_value \in {"nan", "inf", "-inf"}
           /\ \A k \in DOMAIN calls :
                /\ calls[k].step <= data_iter_step
                /\ calls[k].step = data_iter_step =>
                      calls[k].op \in {"adjust_learning_rate", "model"}
           /\ \A j \in 0..(data_iter_step - 1) :
                \A op \in {"model", "loss_scaler", "metric_update_loss",
                           "metric_update_lr", "all_reduce_mean"} :
                   Cardinality(At(op, j)) = 1
           /\ ~ENABLED Next

C1_Witness ==
    /\ Train /\ tpc = "exited" /\ log_writer
    /\ data_iter_step >= 2 /\ accum_iter = 2 /\ (data_iter_step + 1) % accum_iter = 0

(***************************************************************************)
(* C2: the loss scaler is called once on every batch, with update_grad     *)
(* true exactly when (i + 1) % A = 0; the gradients are zeroed inside the  *)
(* loop on exactly those batches; so every optimizer step applies the      *)
(* gradients of exactly A consecutive batches, each scaled by 1/A, and the *)
(* buffers are empty when an accumulation group starts.                    *)
(***************************************************************************)
C2_AccumulationCadence ==
    Train =>
      /\ \A k \in Idx("loss_scaler") :
            calls[k].flag = ((calls[k].step + 1) % accum_iter = 0)
      /\ \A j \in 0..(num_batches - 1) :
            /\ Cardinality(At("loss_scaler", j)) = IF Scaled(j) THEN 1 ELSE 0
            /\ Cardinality({k \in At("zero_grad", j) : calls[k].phase = "loop"})
                 = IF Scaled(j) /\ (j + 1) % accum_iter = 0 THEN 1 ELSE 0
            /\ Cardinality(At("optimizer_step", j))
                 = IF Scaled(j) /\ (j + 1) % accum_iter = 0 THEN 1 ELSE 0
            /\ \A z \in At("zero_grad", j) : \A c \in At("loss_scaler", j) : c < z
      /\ Len(applied) = Cardinality(Idx("optimizer_step"))
      /\ \A m \in 1..Len(applied) :
            applied[m] = [q \in 1..accum_iter |-> <<(m - 1) * accum_iter + q - 1, accum_iter>>]
      /\ (tpc \in {"head", "forward", "check", "backward"}
            /\ data_iter_step % accum_iter = 0) => grads = << >>

C2_Witness ==
    Train /\ accum_iter = 2 /\ Len(applied) = 2 /\ tpc = "returned"

(***************************************************************************)
(* C7: the learning rate is adjusted exactly on the batches with           *)
(* i % A = 0, before the batch's forward pass; so exactly one adjustment   *)
(* lies between two consecutive optimizer steps, none lies between the     *)
(* forward pass of a group's first batch and the group's optimizer step,   *)
(* and a group's adjustment precedes its optimizer step.                   *)
(***************************************************************************)
C7_LearningRateCadence ==
    Train =>
      /\ \A j \in 0..(num_batches - 1) :
            /\ Cardinality(At("adjust_learning_rate", j))
                 = IF Started(j) /\ j % accum_iter = 0 THEN 1 ELSE 0
            /\ \A a \in At("adjust_learning_rate", j) : \A f \in At("model", j) : a < f
      /\ \A p, q \in Idx("optimizer_step") :
            (p < q /\ ~\E r \in Idx("optimizer_step") : p < r /\ r < q)
               => Cardinality({a \in Idx("adjust_learning_rate") : p < a /\ a < q}) = 1
      /\ \A q \in Idx("optimizer_step") :
            LET first == calls[q].step - accum_iter + 1
            IN /\ \E a \in At("adjust_learning_rate", first) : a < q
               /\ \A f \in At("model", first) :
                     ~\E a \in Idx("adjust_learning_rate") : f < a /\ a < q
               /\ Cardinality(At("model", first)) = 1

C7_Witness ==
    Train /\ accum_iter = 2 /\ Cardinality(Idx("optimizer_step")) = 2
          /\ Cardinality(Idx("adjust_learning_rate")) = 3

(***************************************************************************)
(* C8: without a log writer no scalar is written; with one, each batch with *)
(* (i + 1) % A = 0 writes one 'loss' and one 'lr' entry and the other       *)
(* batches write none; both entries carry x = floor((i / N + epoch) * 1000);*)
(* x never decreases and lies in [epoch * 1000, (epoch + 1) * 1000).        *)
(***************************************************************************)
Scalars == Idx("add_scalar_loss") \cup Idx("add_scalar_lr")

C9_TrailingGradients ==
    Train =>
      /\ tpc # "start" =>
           /\ \A k \in DOMAIN grads : grads[k] # StaleGrad
           /\ \A m \in DOMAIN applied : \A k \in DOMAIN applied[m] :
                 applied[m][k] # StaleGrad
      /\ tpc = "returned" =>
           LET N == num_batches
               A == accum_iter
               rest == N % A
           IN /\ Len(applied) = N \div A
              /\ Cardinality(Idx("optimizer_step")) = N \div A
              /\ grads = [q \in 1..rest |-> <<N - rest + q - 1, A>>]
              /\ \A k \in DOMAIN grads : \A m \in DOMAIN applied :
                    \A r \in DOMAIN applied[m] : applied[m][r] # grads[k]
              /\ \A k \in Idx("zero_grad") : calls[k].step < N - rest
              /\ N < A => (applied = << >> /\ Idx("optimizer_step") = {})
              /\ \A j \in 0..(N - 1) : Cardinality(At("metric_update_loss", j)) = 1

C9_Witness ==
    /\ Train /\ tpc = "returned" /\ num_batches = 5 /\ accum_iter = 3
    /\ Len(grads) = 2 /\ Len(applied) = 1

(***************************************************************************)
(* C3 as stated: in train_one_epoch and in evaluate alike, a reduction     *)
(* across the processes is called only after the last batch, never inside  *)
(* the batch loop.                                                         *)
(***************************************************************************)
ReduceOps == {"all_reduce_mean", "synchronize_between_processes"}

LoopOps == {"adjust_learning_rate", "model", "loss_scaler", "optimizer_step",
            "metric_update", "metric_update_loss", "metric_update_lr"}

C3_ReduceOnlyAtEnd ==
    \A k \in DOMAIN calls :
       calls[k].op \in ReduceOps =>
          /\ calls[k].phase = "post"
          /\ \A l \in DOMAIN calls : calls[l].op \in LoopOps => l < k

(***************************************************************************)
(* C3 amended: evaluate reduces across the processes only once, after the  *)
(* last batch; train_one_epoch also does so once after its last batch      *)
(* (synchronize_between_processes), and besides it calls all_reduce_mean   *)
(* inside the loop, once on every batch whose loss is finite.              *)
(***************************************************************************)
C3_ReduceInTrainLoop ==
    /\ \A k \in Idx("synchronize_between_processes") :
          /\ calls[k].phase = "post"
          /\ \A l \in DOMAIN calls : calls[l].op \in LoopOps \cup {"all_reduce_mean"} => l < k
          /\ Train => (calls[k].step = num_batches /\ tpc = "returned")
          /\ Eval => (calls[k].step = Len(preds) /\ epc # "loop")
    /\ Cardinality(Idx("synchronize_between_processes")) =
          IF (Train /\ tpc = "returned") \/ (Eval /\ epc # "loop") THEN 1 ELSE 0
    /\ Eval => Idx("all_reduce_mean") = {}
    /\ Train =>
          /\ \A j \in 0..(num_batches - 1) :
                Cardinality(At("all_reduce_mean", j)) = IF Completed(j) \/
                      (j = data_iter_step /\ tpc = "log") THEN 1 ELSE 0
          /\ \A k \in Idx("all_reduce_mean") :
                /\ calls[k].phase = "loop"
                /\ \E c \in At("loss_scaler", calls[k].step) : c < k

C3_Witness ==
    Train /\ tpc = "returned" /\ num_batches = 3
          /\ Cardinality(Idx("all_reduce_mean")) = 3

(***************************************************************************)
(* C4: evaluate writes files only after the batch loop and only when       *)
(* confusion_matrix_plot is set: none without it, whatever                 *)
(* RISE_collapse_labels is; '<plot_save_name>_confusion_matrix.png' alone  *)
(* with confusion_matrix_plot and without RISE_collapse_labels; that file  *)
(* and then '<plot_save_name>_bin_confusion_matrix.png' with both. Both    *)
(* are in the one hard-coded directory and depend only on plot_save_name.  *)
(* The counts are those of a call that returns; a call that fails has      *)
(* written the first files of the same list.                               *)
(***************************************************************************)
IsPrefix(s, t) == Len(s) <= Len(t) /\ \A k \in 1..Len(s) : s[k] = t[k]

PlotDirectory == "/niddk-data-central/P2/mae_hr/MAE_Accelerometer/plots/"

FilesDue ==
    IF ~confusion_matrix_plot THEN << >>
    ELSE IF ~RISE_collapse_labels
         THEN << <<PlotDirectory, plot_save_name, "_confusion_matrix.png">> >>
         ELSE << <<PlotDirectory, plot_save_name, "_confusion_matrix.png">>,
                 <<PlotDirectory, plot_save_name, "_bin_confusion_matrix.png">> >>

C5_CollapseOnlyForRISE ==
    (Eval /\ data = "UCIHAR") =>
       /\ final_bin_acc1 = Unset
       /\ \A k \in DOMAIN files : files[k][3] # "_bin_confusion_matrix.png"

(***************************************************************************)
(* C6 as stated: with confusion_matrix_plot, an error of the post-pass     *)
(* branch ends the call and no metrics are returned: if args.data is       *)
(* neither 'UCIHAR' nor 'RISE' the call fails on the unbound label names   *)
(* before any file is written; if RISE_collapse_labels is set and a        *)
(* prediction or a target is outside 0..6 the call fails on the missing    *)
(* mapping key after the first file and before the binary one.             *)
(***************************************************************************)
OutOfRange ==
    \E k \in DOMAIN seen : seen[k][1] \notin 0..6 \/ seen[k][2] \notin 0..6

Ended == epc \in {"returned", "failed"}

FailsUnbound == epc = "failed" /\ error = "UnboundLocalError" /\ files = << >>

FailsOnKey ==
    /\ epc = "failed" /\ error = "KeyError"
    /\ files = << <<PlotDirectory, plot_save_name, "_confusion_matrix.png">> >>

C6_PostPassErrors ==
    (Eval /\ confusion_matrix_plot /\ Ended) =>
       /\ data \notin {"UCIHAR", "RISE"} => FailsUnbound
       /\ (RISE_collapse_labels /\ OutOfRange) => FailsOnKey

(***************************************************************************)
(* C6 amended: the same, the second case being that of a call whose        *)
(* args.data is 'UCIHAR' or 'RISE' (otherwise the first case has already   *)
(* ended the call); a call that fails never returns, and a call fails in   *)
(* these two cases only.                                                   *)
(***************************************************************************)
C6_PostPassErrorsByCase ==
    Eval =>
      /\ (confusion_matrix_plot /\ Ended) =>
           /\ data \notin {"UCIHAR", "RISE"} => FailsUnbound
           /\ (data \in {"UCIHAR", "RISE"} /\ RISE_collapse_labels /\ OutOfRange)
                 => FailsOnKey
      /\ epc = "failed" => (~ENABLED Next /\ confusion_matrix_plot
                             /\ (FailsUnbound \/ FailsOnKey))
      /\ (error # "none") <=> (epc = "failed")

C6_Witness ==
    Eval /\ FailsOnKey /\ data = "RISE" /\ Len(seen) = 2 /\ seen[1][1] = 7

(***************************************************************************)
(* C10: the prediction list and the target list always hold the same       *)
(* number of batches; flattened, each holds one entry per evaluated sample *)
(* in the order of evaluation; the plotted accuracy is the number of       *)
(* positions where prediction and target agree over the number of samples; *)
(* and the binary collapse of labels in 0..6 agrees wherever the seven     *)
(* classes agree, so the binary accuracy is not below the 7-class one.     *)
(***************************************************************************)
Sedentary == {0, 4, 5, 6}
Active == {1, 2, 3}

SameBin(a, b) == (a \in Sedentary /\ b \in Sedentary) \/ (a \in Active /\ b \in Active)

C10_AccumulatedLists ==
    Eval =>
      /\ Len(preds) = Len(targets)
      /\ \A b \in DOMAIN preds : Len(preds[b]) = Len(targets[b]) /\ Len(preds[b]) >= 1
      /\ Chain(preds) = [k \in 1..Len(seen) |-> seen[k][1]]
      /\ Chain(targets) = [k \in 1..Len(seen) |-> seen[k][2]]
      /\ final_acc1 # Unset =>
           /\ final_acc1[1] = Cardinality({k \in DOMAIN seen : seen[k][1] = seen[k][2]})
           /\ final_acc1[2] = Len(seen)
      /\ final_bin_acc1 # Unset =>
           /\ ~OutOfRange /\ final_acc1 # Unset
           /\ final_bin_acc1[1] =
                 Cardinality({k \in DOMAIN seen : SameBin(seen[k][1], seen[k][2])})
           /\ final_bin_acc1[2] = final_acc1[2]
           /\ final_bin_acc1[1] >= final_acc1[1]

C10_Witness ==
    /\ Eval /\ epc = "returned" /\ Len(preds) = 2
    /\ final_bin_acc1 # Unset /\ final_bin_acc1[1] = 2 /\ final_acc1[1] = 1
    /\ seen[1] # seen[2]

====
